---------------------------- MODULE Spec2Model ----------------------------
(***************************************************************************)
(* The keyframe editor "Animate" of Parsa3323/Website as a state machine.  *)
(*                                                                         *)
(* The repository holds four revisions of the editor page:                 *)
(*   "animate"  src/src/pages/Animate.tsx                                  *)
(*   "p000"     src/unnamed/part_000                                       *)
(*   "p001a"    src/unnamed/part_001, lines 1-260                          *)
(*   "p001b"    src/unnamed/part_001, lines 261-488                        *)
(* variant is fixed by Init and every operation is translated per          *)
(* revision, so a formula that holds holds of all four.                    *)
(*                                                                         *)
(* JavaScript objects are heap cells: objs holds the keyframe objects,     *)
(* joints the joint objects; an address is an index.  A spread {...o}      *)
(* allocates a new object whose properties hold the SAME addresses as o,   *)
(* so sharing between a keyframe and its copy is visible in the model.     *)
(* An object is a function whose DOMAIN is the set of its own properties:  *)
(* {} is the function with the empty domain.                               *)
(*                                                                         *)
(* React: a handler runs to completion, its set-state calls are applied    *)
(* together and the component is rendered again before the next event, so  *)
(* a handler reads the state of the latest render.  The callback handed to *)
(* requestAnimationFrame keeps the closure of the render in which          *)
(* playAnimation ran.                                                      *)
(***************************************************************************)
EXTENDS Integers, Sequences, FiniteSets, TLC

VARIABLES variant,        \* which revision of the page runs
          joints,         \* heap of joint objects: axis -> number
          objs,           \* heap of keyframe objects: joint name -> address
          frames,         \* useState frames: array of slots
          currentFrame,   \* useState currentFrame (0-based)
          animationName,  \* useState animationName
          interval,       \* useState interval, in units of 1/Denom
          isPlaying,      \* useState isPlaying
          animationRef,   \* useRef: last requestAnimationFrame handle, 0 = undefined
          rafQueue,       \* callbacks the browser holds for the next display refresh
          mounted,        \* the component is in the tree
          download,       \* what the last handler handed to the browser to download
          uncaught,       \* the last handler let an exception escape
          lastOp,         \* history: the operation that produced this state
          lastArg,        \* history: its arguments and what it observed
          written,        \* history: cell -> value last stored by updateCurrentFrame
          copiedFrom,     \* history: index of a copy -> index of its source
          trailStart,     \* history: active index when a playback cycle began, -1 = not tracked
          trail           \* history: indices the callbacks set in this cycle

vars == <<variant, joints, objs, frames, currentFrame, animationName, interval,
          isPlaying, animationRef, rafQueue, mounted, download, uncaught,
          lastOp, lastArg, written, copiedFrom, trailStart, trail>>

----------------------------------------------------------------------------
(* Bounds of the exploration *)

MaxLen == 3        \* longest frames array explored
MaxAlloc == 2      \* keyframe objects allocated after the initial one
Denom == 2         \* interval is held as a multiple of 1/Denom

----------------------------------------------------------------------------
(* Data *)

Variants == {"animate", "p000", "p001a", "p001b"}

JointNames == {"head", "left_arm", "right_arm", "left_leg", "right_leg"}

Axes == {"x", "y", "z"}

\* An array slot that was never assigned, and one that holds undefined.
Hole == 0
Undefined == -1

\* { x: 0, y: 0, z: 0 }
ZeroAngles == [a \in Axes |-> 0]

\* The neutral pose as a value.
NeutralPose == [p \in JointNames |-> ZeroAngles]

\* const defaultFrame (the literal of useState in p000): object 1, joints 1..5.
defaultFrame == 1

DefaultObj ==
  [p \in JointNames |->
     CASE p = "head" -> 1 [] p = "left_arm" -> 2 [] p = "right_arm" -> 3
       [] p = "left_leg" -> 4 [] p = "right_leg" -> 5]

\* {...f, ...g}
Spread(f, g) ==
  [k \in (DOMAIN f) \cup (DOMAIN g) |-> IF k \in DOMAIN g THEN g[k] ELSE f[k]]

\* The empty object {} (also {...undefined}).
EmptyObj == [k \in {} |-> 0]

\* [...frames]: the iterator yields undefined for a hole.
Dense(arr) == [i \in 1..Len(arr) |-> IF arr[i] = Hole THEN Undefined ELSE arr[i]]

\* arr[i] for a 0-based i: undefined beyond the length and for a hole.
At(arr, i) ==
  IF i >= 0 /\ i < Len(arr) /\ arr[i + 1] > 0 THEN arr[i + 1] ELSE Undefined

\* The value of the keyframe object at address a: joint name -> angles.
PoseOf(js, os, a) == [p \in DOMAIN os[a] |-> js[os[a][p]]]

\* What a reader of keyframe k sees.
Absent == [present |-> FALSE, pose |-> EmptyObj]

KeyframeAtIn(js, os, arr, k) ==
  IF At(arr, k) = Undefined THEN Absent
  ELSE [present |-> TRUE, pose |-> PoseOf(js, os, At(arr, k))]

KeyframeAt(k) == KeyframeAtIn(joints, objs, frames, k)

Keyframes == [k \in 1..Len(frames) |-> KeyframeAt(k - 1)]

HasDefaultFrame == variant # "p000"

HasFallback == variant \in {"p001a", "p001b"}

\* const currentFrameData = frames[currentFrame] || defaultFrame;
\* p000 hands frames[currentFrame] itself to the renderer and the editors.
currentFrameData ==
  IF At(frames, currentFrame) # Undefined
    THEN [present |-> TRUE, pose |-> PoseOf(joints, objs, At(frames, currentFrame))]
  ELSE IF HasDefaultFrame
    THEN [present |-> TRUE, pose |-> PoseOf(joints, objs, defaultFrame)]
  ELSE Absent

\* Object.entries(frames[currentFrame]) of p000 throws on undefined while
\* rendering; with no error boundary React then unmounts the tree.
RenderThrowsFor(v, arr, cf) == v = "p000" /\ At(arr, cf) = Undefined

RenderThrows == RenderThrowsFor(variant, frames, currentFrame)

\* No artifact, nothing logged.
NoDownload == [made |-> FALSE, logged |-> FALSE]

----------------------------------------------------------------------------
Init ==
  /\ variant \in Variants
  /\ joints = [i \in 1..5 |-> ZeroAngles]
  /\ objs = <<DefaultObj>>
  /\ frames = <<defaultFrame>>
  /\ currentFrame = 0
  /\ animationName = "wave"
  /\ interval = 10 * Denom
  /\ isPlaying = FALSE
  /\ animationRef = 0
  /\ rafQueue = {}
  /\ mounted = TRUE
  /\ download = NoDownload
  /\ uncaught = FALSE
  /\ lastOp = "init"
  /\ lastArg = [k \in {} |-> 0]
  /\ written = [c \in {} |-> 0]
  /\ copiedFrom = [c \in {} |-> 0]
  /\ trailStart = -1
  /\ trail = <<>>


----------------------------------------------------------------------------
(* Input widgets *)

\* HeroUI's Slider reads its range from minValue and maxValue (0 and 100
\* when not given) and its step from step (1); min and max are not among
\* its props, so a Slider written with min/max keeps the range 0..100.
SliderMaxValue == 100

\* Angles offered to the joint editors by the exploration.
AngleSamples == {45, 90, 270}

\* Cells the exploration edits (every keyframe still holds all its cells).
EditCells == {<<"head", "x">>, <<"head", "z">>, <<"right_leg", "y">>}

\* The timeline control: a Slider with max={frames.length - 1}, or in p001a
\* <input type="range" min={0} max={frames.length - 1} step={1}>.
TimelineValues ==
  IF variant = "p001a" THEN 0..(Len(frames) - 1)
  ELSE {i \in 0..(MaxLen - 1) : i <= SliderMaxValue}

\* The joint editors: a Slider with min={-180} max={180}, or in p001a an
\* <Input type="number"> (any number) beside an <input type="range">.
AngleValues ==
  IF variant = "p001a" THEN AngleSamples
  ELSE {v \in AngleSamples : 0 <= v /\ v <= SliderMaxValue}

\* One editor per entry of currentFrameData and per entry of its angles.
EditorShown(part, axis) ==
  /\ currentFrameData.present
  /\ part \in DOMAIN currentFrameData.pose
  /\ axis \in DOMAIN currentFrameData.pose[part]

----------------------------------------------------------------------------
(* Editor state operations *)

StopTracking == trailStart' = -1 /\ trail' = <<>>

\* A handler other than exportAnimation hands the browser nothing.
NoArtifact == download' = NoDownload

\* What the render after a handler does to the component.
Rendered == mounted' = ~RenderThrowsFor(variant, frames', currentFrame')

\* The object addKeyFrame spreads: frames[currentFrame], in p001a/p001b
\* frames[currentFrame] || defaultFrame.
AddSource ==
  IF At(frames, currentFrame) # Undefined THEN objs[At(frames, currentFrame)]
  ELSE IF HasFallback THEN objs[defaultFrame]
  ELSE EmptyObj

\* The frames array after addKeyFrame, the new object at address a.
AddedFrames(a) == Append(Dense(frames), a)

\* setCurrentFrame(frames.length)
AddedIndex == Len(frames)

addKeyFrame ==
  /\ mounted
  /\ Len(frames) < MaxLen
  /\ Len(objs) < 1 + MaxAlloc
  /\ objs' = Append(objs, Spread(AddSource, EmptyObj))
  /\ frames' = AddedFrames(Len(objs) + 1)
  /\ currentFrame' = AddedIndex
  /\ copiedFrom' =
       IF At(frames, currentFrame) # Undefined
         THEN Spread(copiedFrom, [t \in {Len(frames)} |-> currentFrame])
         ELSE copiedFrom
  /\ lastOp' = "add"
  /\ lastArg' = [idx |-> currentFrame]
  /\ uncaught' = FALSE
  /\ NoArtifact
  /\ StopTracking
  /\ Rendered
  /\ UNCHANGED <<variant, joints, animationName, interval, isPlaying,
                 animationRef, rafQueue, written>>

\* newFrames after "if (!newFrames[currentFrame]) newFrames[currentFrame] =
\* { ...defaultFrame }" (p001a, p001b); the other revisions have no such line.
\* tmp is the address the copy of defaultFrame would get.
WithFallback(arr, tmp) ==
  IF HasFallback /\ At(arr, currentFrame) = Undefined
    THEN [i \in 1..(IF currentFrame + 1 > Len(arr) THEN currentFrame + 1 ELSE Len(arr)) |->
            IF i = currentFrame + 1 THEN tmp
            ELSE IF i <= Len(arr) THEN arr[i] ELSE Hole]
    ELSE arr

\* { ...old[part], [axis]: value }
UpdatedJoint(old, axis, value) == Spread(old, [a \in {axis} |-> value])

\* { ...frame, [part]: j }
UpdatedFrame(frame, part, j) == Spread(frame, [p \in {part} |-> j])

\* newFrames[currentFrame][part] is read before anything is stored: a
\* TypeError when newFrames[currentFrame] is undefined.
UpdateThrows == ~HasFallback /\ At(frames, currentFrame) = Undefined

\* The keyframe object updateCurrentFrame spreads: newFrames[currentFrame],
\* which in p001a and p001b is a copy of defaultFrame when the slot is empty.
UpdateBase ==
  IF At(frames, currentFrame) = Undefined THEN objs[defaultFrame]
  ELSE objs[At(frames, currentFrame)]

\* A bug the claims about sharing must exclude: the keyframe is copied
\* shallowly and the angle stored into the joint object the copy still
\* shares, newFrames[currentFrame][part][axis] = value.
UpdateStoredInPlace(part, axis, value) ==
  [joints |-> IF part \in DOMAIN UpdateBase
                THEN [joints EXCEPT ![UpdateBase[part]] =
                        UpdatedJoint(@, axis, value)]
                ELSE joints,
   objs |-> Append(objs, UpdateBase),
   frames |-> [WithFallback(Dense(frames), Len(objs) + 1)
                 EXCEPT ![currentFrame + 1] = Len(objs) + 1]]

\* A bug the claim about defaultFrame must exclude: the array is copied but
\* the keyframe object is not, newFrames[currentFrame][part] = { ... }.
UpdateStoredInFrame(part, axis, value) ==
  LET oldJoint == IF part \in DOMAIN UpdateBase THEN joints[UpdateBase[part]]
                  ELSE EmptyObj
      j == Len(joints) + 1
      a == At(frames, currentFrame)
      js == Append(joints, UpdatedJoint(oldJoint, axis, value))
  IN IF a = Undefined
       THEN [joints |-> js,
             objs |-> Append(objs, UpdatedFrame(UpdateBase, part, j)),
             frames |-> [WithFallback(Dense(frames), Len(objs) + 1)
                           EXCEPT ![currentFrame + 1] = Len(objs) + 1]]
       ELSE [joints |-> js,
             objs |-> [objs EXCEPT ![a] = UpdatedFrame(@, part, j)],
             frames |-> Dense(frames)]

\* The heap and the array updateCurrentFrame hands to setFrames: a new joint
\* object, a new keyframe object holding it, a new array holding that.
UpdateStored(part, axis, value) ==
  LET oldJoint == IF part \in DOMAIN UpdateBase THEN joints[UpdateBase[part]]
                  ELSE EmptyObj
      j == Len(joints) + 1
      a == Len(objs) + 1
  IN [joints |-> Append(joints, UpdatedJoint(oldJoint, axis, value)),
      objs |-> Append(objs, UpdatedFrame(UpdateBase, part, j)),
      frames |-> [WithFallback(Dense(frames), a) EXCEPT ![currentFrame + 1] = a]]

updateCurrentFrame(part, axis, value) ==
  /\ mounted
  /\ EditorShown(part, axis)
  /\ lastOp' = "update"
  /\ lastArg' = [idx |-> currentFrame, part |-> part, axis |-> axis,
                 value |-> value]
  /\ NoArtifact
  /\ StopTracking
  /\ UNCHANGED <<variant, currentFrame, animationName, interval, isPlaying,
                 animationRef, rafQueue, copiedFrom>>
  /\ IF UpdateThrows
       THEN /\ uncaught' = TRUE
            /\ UNCHANGED <<joints, objs, frames, written, mounted>>
       ELSE LET r == UpdateStored(part, axis, value)
            IN /\ Len(objs) < 1 + MaxAlloc
               /\ Len(r.frames) <= MaxLen
               /\ joints' = r.joints
               /\ objs' = r.objs
               /\ frames' = r.frames
               /\ written' = Spread(written,
                                [c \in {<<currentFrame, part, axis>>} |-> value])
               /\ uncaught' = FALSE
               /\ Rendered

\* onChange={setCurrentFrame}
selectFrame(i) ==
  /\ mounted
  /\ i \in TimelineValues
  /\ currentFrame' = i
  /\ lastOp' = "select"
  /\ lastArg' = [idx |-> i]
  /\ uncaught' = FALSE
  /\ NoArtifact
  /\ StopTracking
  /\ UNCHANGED <<variant, joints, objs, frames, animationName, interval,
                 isPlaying, animationRef, rafQueue, written,
                 copiedFrom>>
  /\ Rendered


----------------------------------------------------------------------------
(* Playback driver *)

\* requestAnimationFrame returns a handle that no pending request holds.
\* Handles are compared only for equality, and both callers store the new
\* handle in animationRef at once, so the least free one stands for it.
FreshHandle(queue) ==
  CHOOSE h \in 1..(Cardinality(queue) + 1) :
    /\ \A c \in queue : c.h # h
    /\ \A g \in 1..(h - 1) : \E c \in queue : c.h = g

\* cancelAnimationFrame(handle)
Cancelled(queue, handle) == {c \in queue : c.h # handle}

\* A bug the claim about stopping must exclude: the stop branch clears
\* isPlaying and leaves the pending request alone.
QueueAfterStopNotCancelled == rafQueue

\* The stop branch of playAnimation: what is left in the browser's queue.
QueueAfterStop ==
  IF animationRef # 0 THEN Cancelled(rafQueue, animationRef) ELSE rafQueue

\* frameIndex = (frameIndex + 1) % frames.length, frames being the array of
\* the render in which playback was started.
NextFrameIndex(c) == (c.frameIndex + 1) % c.n

\* A bug the claim about the number of loops must exclude: playAnimation
\* without its "if (isPlaying)" branch, every press starts a loop.
StopRequestedNever == FALSE

\* if (isPlaying) { cancel; setIsPlaying(false); return; }
StopRequested == isPlaying

playAnimation ==
  /\ mounted
  /\ uncaught' = FALSE
  /\ NoArtifact
  /\ lastArg' = [idx |-> currentFrame]
  /\ IF StopRequested
       THEN /\ rafQueue' = QueueAfterStop
            /\ isPlaying' = FALSE
            /\ lastOp' = "stop"
            /\ StopTracking
            /\ UNCHANGED animationRef
       ELSE LET h == FreshHandle(rafQueue)
            IN /\ isPlaying' = TRUE
               /\ rafQueue' = rafQueue \cup
                    {[h |-> h, frameIndex |-> currentFrame, n |-> Len(frames)]}
               /\ animationRef' = h
               /\ lastOp' = "play"
               /\ trailStart' = currentFrame
               /\ trail' = <<>>
  /\ UNCHANGED <<variant, joints, objs, frames, currentFrame, animationName,
                 interval, mounted, written, copiedFrom>>

\* The display refresh runs one queued callback: animate.  setCurrentFrame
\* on an unmounted component stores nothing.
animate(c) ==
  /\ c \in rafQueue
  /\ LET fi == NextFrameIndex(c)
         h == FreshHandle(rafQueue \ {c})
     IN /\ currentFrame' = IF mounted THEN fi ELSE currentFrame
        /\ rafQueue' = (rafQueue \ {c}) \cup
             {[h |-> h, frameIndex |-> fi, n |-> c.n]}
        /\ animationRef' = h
        /\ lastArg' = [idx |-> fi]
        /\ IF trailStart >= 0 /\ Len(trail) >= Len(frames)
             THEN trailStart' = currentFrame /\ trail' = <<fi>>
             ELSE /\ trail' = IF trailStart >= 0 THEN Append(trail, fi) ELSE trail
                  /\ UNCHANGED trailStart
  /\ lastOp' = "animate"
  /\ uncaught' = FALSE
  /\ NoArtifact
  /\ mounted' = (mounted /\ ~RenderThrowsFor(variant, frames, currentFrame'))
  /\ UNCHANGED <<variant, joints, objs, frames, animationName, interval,
                 isPlaying, written, copiedFrom>>

\* The component leaves the tree (a client-side route change): it declares
\* no effect, so nothing runs on unmount.
unmount ==
  /\ mounted
  /\ mounted' = FALSE
  /\ lastOp' = "unmount"
  /\ lastArg' = [idx |-> currentFrame]
  /\ uncaught' = FALSE
  /\ NoArtifact
  /\ StopTracking
  /\ UNCHANGED <<variant, joints, objs, frames, currentFrame, animationName,
                 interval, isPlaying, animationRef, rafQueue, written,
                 copiedFrom>>

\* Following a plain link (p001a: <Button as="a" href="/">) loads another
\* document: the browser drops this document's pending callbacks.
pageUnload ==
  /\ mounted
  /\ mounted' = FALSE
  /\ rafQueue' = {}
  /\ lastOp' = "unload"
  /\ lastArg' = [idx |-> currentFrame]
  /\ uncaught' = FALSE
  /\ NoArtifact
  /\ StopTracking
  /\ UNCHANGED <<variant, joints, objs, frames, currentFrame, animationName,
                 interval, isPlaying, animationRef, written,
                 copiedFrom>>


----------------------------------------------------------------------------
(* Metadata inputs *)

\* Values typed into the interval field, in units of 1/Denom:
\* -5, 0 and 2 + 1/Denom.
IntervalSamples == {-5 * Denom, 0, 2 * Denom + 1}

NameSamples == {"wave", "walk"}

Max(a, b) == IF a >= b THEN a ELSE b

\* Math.floor of a value held in units of 1/Denom, as a whole number.
Floor(v) == v \div Denom

\* setInterval(Number(e.target.value)); p001a and p001b:
\* setInterval(Math.max(1, Number(e.target.value))).
StoredInterval(v) == IF HasFallback THEN Max(1 * Denom, v) ELSE v

setInterval(v) ==
  /\ mounted
  /\ interval' = StoredInterval(v)
  /\ lastOp' = "setInterval"
  /\ lastArg' = [idx |-> currentFrame]
  /\ uncaught' = FALSE
  /\ NoArtifact
  /\ StopTracking
  /\ UNCHANGED <<variant, joints, objs, frames, currentFrame, animationName,
                 isPlaying, animationRef, rafQueue, mounted, written,
                 copiedFrom>>

\* setAnimationName(e.target.value)
setAnimationName(name) ==
  /\ mounted
  /\ animationName' = name
  /\ lastOp' = "setName"
  /\ lastArg' = [idx |-> currentFrame]
  /\ uncaught' = FALSE
  /\ NoArtifact
  /\ StopTracking
  /\ UNCHANGED <<variant, joints, objs, frames, currentFrame, interval,
                 isPlaying, animationRef, rafQueue, mounted, written,
                 copiedFrom>>

----------------------------------------------------------------------------
(* Exporter *)

\* The interval written to the document, in units of 1/Denom: interval
\* itself, in p001a and p001b Math.max(1, Math.floor(interval)).
ExportedInterval ==
  IF HasFallback THEN Max(1, Floor(interval)) * Denom ELSE interval

\* frames.map(frame => ({ head: ..frame.head.., ... })) of p001a and p001b
\* reads frame.head of every element: a TypeError on an element that is
\* undefined (map skips holes), and in p001a (frame.head.x) on a keyframe
\* that lacks a joint.
CleaningThrows ==
  /\ HasFallback
  /\ \E i \in 1..Len(frames) :
       \/ frames[i] = Undefined
       \/ /\ frames[i] > 0
          /\ variant = "p001a"
          /\ DOMAIN objs[frames[i]] # JointNames

\* Frames of the array that hold the joint object j.
Holders(j) ==
  {i \in 1..Len(frames) :
     frames[i] > 0 /\ \E p \in DOMAIN objs[frames[i]] : objs[frames[i]][p] = j}

Min(S) == CHOOSE m \in S : \A n \in S : m <= n

\* yaml.dump(animation) writes an object met a second time as an alias of the
\* anchor it gave the first; with noRefs: true (p001a, p001b) it writes every
\* object out.  A node: anchor (0 = none), alias (0 = none), the mapping.
RawNode(i, j) ==
  IF Cardinality(Holders(j)) > 1
    THEN IF i = Min(Holders(j))
           THEN [anchor |-> j, alias |-> 0, map |-> joints[j]]
           ELSE [anchor |-> 0, alias |-> j, map |-> EmptyObj]
    ELSE [anchor |-> 0, alias |-> 0, map |-> joints[j]]

PlainNode(angles) == [anchor |-> 0, alias |-> 0, map |-> angles]

NullStep == [null |-> TRUE, map |-> EmptyObj]

\* steps: frames (animate, p000): the array itself is dumped.
RawSteps ==
  [i \in 1..Len(frames) |->
     IF frames[i] <= 0 THEN NullStep
     ELSE [null |-> FALSE,
           map |-> [p \in DOMAIN objs[frames[i]] |-> RawNode(i, objs[frames[i]][p])]]]

\* One joint of a cleaned frame: p001a { x: j.x, y: j.y, z: j.z } (a property
\* that is undefined is not written), p001b { ...j }.
CleanedJoint(frame, p) ==
  IF p \in DOMAIN frame THEN joints[frame[p]] ELSE EmptyObj

\* steps: cleanedFrames (p001a, p001b); an empty slot is written as null.
CleanedSteps ==
  [i \in 1..Len(frames) |->
     IF frames[i] <= 0 THEN NullStep
     ELSE [null |-> FALSE,
           map |-> [p \in JointNames |->
                      PlainNode(CleanedJoint(objs[frames[i]], p))]]]

\* a.download
FileName == IF variant = "p001a" THEN "animations.yml" ELSE animationName

\* animations: { [animationName]: { interval, loop: true, steps } }
Document ==
  [name |-> animationName,
   interval |-> ExportedInterval,
   loop |-> TRUE,
   steps |-> IF HasFallback THEN CleanedSteps ELSE RawSteps]

\* A bug the claim about the session must exclude: the normalized interval
\* is stored back, setInterval(Math.max(1, Math.floor(interval))).
IntervalAfterExportNormalized == ExportedInterval

\* exportAnimation reads interval and calls no setter.
IntervalAfterExport == interval

\* exportAnimation; libFails: yaml.dump (or the Blob/URL calls after it)
\* throws.  p001a and p001b wrap the body in try/catch and log the error;
\* animate and p000 do not.
exportAnimation(libFails) ==
  /\ mounted
  /\ lastOp' = "export"
  /\ lastArg' = [idx |-> currentFrame, libFails |-> libFails,
                 again |-> (lastOp = "export" /\ download.made)]
  /\ StopTracking
  /\ IF libFails \/ CleaningThrows
       THEN /\ download' = [made |-> FALSE, logged |-> HasFallback]
            /\ uncaught' = ~HasFallback
       ELSE /\ download' = [made |-> TRUE, logged |-> FALSE,
                            file |-> FileName, doc |-> Document]
            /\ uncaught' = FALSE
  /\ interval' = IntervalAfterExport
  /\ UNCHANGED <<variant, joints, objs, frames, currentFrame, animationName,
                 isPlaying, animationRef, rafQueue, mounted, written,
                 copiedFrom>>

\* Reading the document back: an alias stands for the mapping of its anchor.
Resolve(steps, node) ==
  IF node.alias = 0 THEN node.map
  ELSE LET src == CHOOSE ip \in {<<i, p>> \in (1..Len(steps)) \X JointNames :
                                   /\ ~steps[i].null
                                   /\ p \in DOMAIN steps[i].map
                                   /\ steps[i].map[p].anchor = node.alias} : TRUE
       IN steps[src[1]].map[src[2]].map

LoadSteps(steps) ==
  [i \in 1..Len(steps) |->
     IF steps[i].null THEN Absent
     ELSE [present |-> TRUE,
           pose |-> [p \in DOMAIN steps[i].map |-> Resolve(steps, steps[i].map[p])]]]

----------------------------------------------------------------------------
(* Specifications *)

UpdateStep ==
  \E c \in EditCells : \E v \in AngleValues : updateCurrentFrame(c[1], c[2], v)

SelectStep == \E i \in TimelineValues : selectFrame(i)

AnimateStep == \E c \in rafQueue : animate(c)

IntervalStep == \E v \in IntervalSamples : setInterval(v)

NameStep == \E n \in NameSamples : setAnimationName(n)

ExportStep == \E f \in BOOLEAN : exportAnimation(f)

Next ==
  \/ addKeyFrame
  \/ UpdateStep
  \/ SelectStep
  \/ playAnimation
  \/ AnimateStep
  \/ IntervalStep
  \/ NameStep
  \/ ExportStep
  \/ unmount
  \/ pageUnload

Spec == Init /\ [][Next]_vars


\* The editing session: keyframes are added, selected and edited while
\* playback may run; name and interval keep their initial values.
NextEdit ==
  \/ addKeyFrame
  \/ UpdateStep
  \/ SelectStep
  \/ playAnimation
  \/ AnimateStep

SpecEdit == Init /\ [][NextEdit]_vars

\* Playback over a sequence that is extended and scrubbed, and leaving the
\* page; the poses keep their initial values.
NextPlay ==
  \/ addKeyFrame
  \/ SelectStep
  \/ playAnimation
  \/ AnimateStep
  \/ unmount
  \/ pageUnload

SpecPlay == Init /\ [][NextPlay]_vars

\* Editing and exporting with playback stopped.
NextExport ==
  \/ addKeyFrame
  \/ UpdateStep
  \/ SelectStep
  \/ IntervalStep
  \/ NameStep
  \/ ExportStep

SpecExport == Init /\ [][NextExport]_vars

\* Exporting in the middle of a session: keyframes are added and edited,
\* the interval is typed, and playback may be running; the timeline control
\* is left alone, the callbacks move the active index.
NextSession ==
  \/ addKeyFrame
  \/ UpdateStep
  \/ playAnimation
  \/ AnimateStep
  \/ IntervalStep
  \/ ExportStep

SpecSession == Init /\ [][NextSession]_vars


----------------------------------------------------------------------------
(* Reading the editor state *)

\* One angle of keyframe k, or that there is none.
CellIn(js, os, arr, k, p, ax) ==
  LET kf == KeyframeAtIn(js, os, arr, k)
  IN IF kf.present /\ p \in DOMAIN kf.pose /\ ax \in DOMAIN kf.pose[p]
       THEN [def |-> TRUE, v |-> kf.pose[p][ax]]
       ELSE [def |-> FALSE, v |-> 0]

Cell(k, p, ax) == CellIn(joints, objs, frames, k, p, ax)

CellAfter(k, p, ax) == CellIn(joints', objs', frames', k, p, ax)

KeyframeAfter(k) == KeyframeAtIn(joints', objs', frames', k)

\* A pose with all five joints and all three axes of each.
FullPose(pose) ==
  /\ DOMAIN pose = JointNames
  /\ \A p \in JointNames : DOMAIN pose[p] = Axes

Indices == 0..(MaxLen + 1)

----------------------------------------------------------------------------
(* C1: every cell reads back the value updateCurrentFrame last stored in  *)
(* it, and one updateCurrentFrame call changes the addressed cell and     *)
(* nothing else: not another axis, joint or keyframe, not the length of   *)
(* the sequence, the active index, the name, the interval or playback.    *)

C1_ReadBack ==
  \A c \in DOMAIN written : Cell(c[1], c[2], c[3]) = [def |-> TRUE, v |-> written[c]]

C1_OnlyTheCell ==
  lastOp' = "update" =>
    /\ Len(frames') = Len(frames)
    /\ \A k \in Indices : \A p \in JointNames : \A ax \in Axes :
         CellAfter(k, p, ax) =
           IF <<k, p, ax>> = <<lastArg'.idx, lastArg'.part, lastArg'.axis>>
             THEN [def |-> TRUE, v |-> lastArg'.value]
             ELSE Cell(k, p, ax)
    /\ UNCHANGED <<currentFrame, animationName, interval, isPlaying, rafQueue>>

C1_Claim == [](C1_ReadBack) /\ [][C1_OnlyTheCell]_vars

----------------------------------------------------------------------------
(* C2: once addKeyFrame has copied keyframe s into keyframe t, an         *)
(* updateCurrentFrame on t leaves every angle of s as it was, and one on  *)
(* s leaves t as it was, although t's joint objects are those of s.       *)

C2_CopyUntouched ==
  lastOp' = "update" /\ ~uncaught' =>
    \A t \in DOMAIN copiedFrom :
      /\ currentFrame = t => KeyframeAfter(copiedFrom[t]) = KeyframeAt(copiedFrom[t])
      /\ currentFrame = copiedFrom[t] => KeyframeAfter(t) = KeyframeAt(t)

C2_Theorem == [][C2_CopyUntouched]_vars

\* A copy was edited and now differs from its source, which it still
\* shares joint objects with.
C2_Witness ==
  /\ lastOp = "update"
  /\ ~uncaught
  /\ currentFrame \in DOMAIN copiedFrom
  /\ KeyframeAt(currentFrame).present
  /\ KeyframeAt(copiedFrom[currentFrame]).present
  /\ KeyframeAt(currentFrame) # KeyframeAt(copiedFrom[currentFrame])
  /\ \E p \in JointNames :
       objs[At(frames, currentFrame)][p] = objs[At(frames, copiedFrom[currentFrame])][p]

----------------------------------------------------------------------------
(* C3: addKeyFrame, in any state, leaves the sequence as it was with one  *)
(* keyframe appended, that keyframe equal in all fifteen angles to the    *)
(* pose that was active, and makes the new last index the active index.   *)

C3_Appended ==
  lastOp' = "add" =>
    /\ Len(frames') = Len(frames) + 1
    /\ \A k \in 0..(Len(frames) - 1) : KeyframeAfter(k) = KeyframeAt(k)
    /\ currentFrameData.present
    /\ FullPose(currentFrameData.pose)
    /\ KeyframeAfter(Len(frames)) = [present |-> TRUE, pose |-> currentFrameData.pose]
    /\ currentFrame' = Len(frames)

C3_Claim == [][C3_Appended]_vars

----------------------------------------------------------------------------
(* C4: playback started at active index i over n keyframes, with no user  *)
(* action in between, has after n callbacks set the active index to i     *)
(* again, and has set it to every index of the sequence exactly once.     *)

C4_Claim ==
  trailStart >= 0 /\ Len(trail) = Len(frames) =>
    /\ trail[Len(trail)] = trailStart
    /\ currentFrame = trailStart
    /\ {trail[i] : i \in 1..Len(trail)} = 0..(Len(frames) - 1)

----------------------------------------------------------------------------
(* C5: the stop branch of playAnimation cancels the pending callback, so  *)
(* none is queued after a stop and no callback runs while playback is     *)
(* stopped: the active index then changes only by a user action.          *)

C5_StopCancels == lastOp = "stop" => rafQueue = {}

C5_NoAdvanceWhenStopped == ~isPlaying => lastOp' # "animate"

C5_Theorem == [](C5_StopCancels) /\ [][C5_NoAdvanceWhenStopped]_vars

\* Playback was stopped while a callback was pending.
C5_Witness == lastOp = "stop" /\ ~isPlaying /\ animationRef # 0 /\ rafQueue = {}

----------------------------------------------------------------------------
(* C6: when the interval is a positive whole number, exportAnimation      *)
(* produces a document with that interval, loop true and one step per     *)
(* keyframe, in order, each step a pose equal to its keyframe.            *)

PositiveWhole(v) == v > 0 /\ v % Denom = 0

C6_Claim ==
  lastOp = "export" /\ ~lastArg.libFails /\ PositiveWhole(interval) =>
    /\ download.made
    /\ download.doc.name = animationName
    /\ download.doc.interval = interval
    /\ download.doc.loop = TRUE
    /\ Len(download.doc.steps) = Len(frames)
    /\ Len(frames) >= 1
    /\ \A i \in 1..Len(frames) :
         /\ ~download.doc.steps[i].null
         /\ LoadSteps(download.doc.steps)[i] = Keyframes[i]

----------------------------------------------------------------------------
(* C7: the interval exportAnimation writes is max(1, floor(interval)) for *)
(* every interval the state can hold, so it is a whole number >= 1.       *)

C7_Claim ==
  lastOp = "export" /\ download.made =>
    /\ download.doc.interval = Max(1, Floor(interval)) * Denom
    /\ PositiveWhole(download.doc.interval)

----------------------------------------------------------------------------
(* C8: a failure while exporting stays inside exportAnimation: nothing    *)
(* escapes the handler, nothing is downloaded, and frames, active index,  *)
(* name, interval and playback are what they were.                        *)

C8_Contained == lastOp = "export" /\ ~download.made => ~uncaught

C8_StateKept ==
  lastOp' = "export" /\ ~download'.made =>
    /\ \A k \in Indices : KeyframeAfter(k) = KeyframeAt(k)
    /\ UNCHANGED <<frames, currentFrame, animationName, interval, isPlaying,
                   rafQueue>>

C8_Claim == [](C8_Contained) /\ [][C8_StateKept]_vars

----------------------------------------------------------------------------
(* C9: when the active index has no keyframe, the renderer and the joint  *)
(* editors are given the neutral pose, and rendering raises no error.     *)

C9_Claim ==
  At(frames, currentFrame) = Undefined =>
    /\ currentFrameData = [present |-> TRUE, pose |-> NeutralPose]
    /\ ~RenderThrows

----------------------------------------------------------------------------
(* C10: once the editor has been left, no playback callback is queued and *)
(* none runs.                                                             *)

C10_NoneQueued == ~mounted => rafQueue = {}

C10_NoneRuns == ~mounted => lastOp' # "animate"

C10_Claim == [](C10_NoneQueued) /\ [][C10_NoneRuns]_vars

----------------------------------------------------------------------------
(* C11: while playback runs, every callback sets the active index to the  *)
(* active index it found plus one, modulo the length the sequence has at  *)
(* that moment, whatever addKeyFrame and the timeline did since playback  *)
(* was started.                                                           *)

C11_Advance ==
  isPlaying /\ mounted /\ lastOp' = "animate" =>
    currentFrame' = (currentFrame + 1) % Len(frames)

C11_Claim == [][C11_Advance]_vars

----------------------------------------------------------------------------
(* C12: the active index always identifies an existing keyframe:          *)
(* 0 <= currentFrame < frames.length in every reachable state.            *)

C12_Claim == 0 <= currentFrame /\ currentFrame < Len(frames)

----------------------------------------------------------------------------
(* C13: every slot of the sequence holds a keyframe with exactly the five *)
(* joints, each with exactly the three axes: no partial keyframe and no   *)
(* gap, in every reachable state.                                         *)

C13_Claim ==
  \A i \in 1..Len(frames) :
    /\ Keyframes[i].present
    /\ FullPose(Keyframes[i].pose)

----------------------------------------------------------------------------
(* C14: the sequence starts as one neutral keyframe, is never empty, and  *)
(* across every step keeps its length or grows by exactly one, growing    *)
(* only by addKeyFrame.                                                   *)

C14_StartsNeutral ==
  lastOp = "init" => Keyframes = <<[present |-> TRUE, pose |-> NeutralPose]>>

C14_NonEmpty == Len(frames) >= 1

C14_GrowsByAdd ==
  \/ Len(frames') = Len(frames)
  \/ Len(frames') = Len(frames) + 1 /\ lastOp' = "add"

C14_Claim == [](C14_StartsNeutral /\ C14_NonEmpty) /\ [][C14_GrowsByAdd]_vars

----------------------------------------------------------------------------
(* C15: every angle of every joint of every keyframe lies in [-180, 180]  *)
(* in every reachable state: the joint editors store no value outside it. *)

C15_Claim ==
  \A i \in 1..Len(frames) :
    Keyframes[i].present =>
      \A p \in DOMAIN Keyframes[i].pose : \A ax \in DOMAIN Keyframes[i].pose[p] :
        /\ -180 <= Keyframes[i].pose[p][ax]
        /\ Keyframes[i].pose[p][ax] <= 180

----------------------------------------------------------------------------
(* C16: an exportAnimation that produces its artifact leaves the keyframe *)
(* sequence, the active index, the name, the interval, the playback flag  *)
(* and the pending callback as they were, so a second export right after  *)
(* it produces the same document.                                         *)

C16_SessionKept ==
  lastOp' = "export" /\ download'.made =>
    /\ \A k \in Indices : KeyframeAfter(k) = KeyframeAt(k)
    /\ UNCHANGED <<joints, objs, frames, currentFrame, animationName,
                   interval, isPlaying, animationRef, rafQueue, mounted>>

C16_SameTwice ==
  lastOp = "export" /\ download.made /\ lastOp' = "export" /\ download'.made =>
    /\ download'.doc = download.doc
    /\ download'.file = download.file

C16_Theorem == [][C16_SessionKept /\ C16_SameTwice]_vars

\* A second export in a row, with playback running over an edited sequence
\* and an interval the exporter has to normalize.
C16_Witness ==
  /\ lastOp = "export"
  /\ download.made
  /\ lastArg.again
  /\ isPlaying
  /\ rafQueue # {}
  /\ Len(frames) >= 2
  /\ \E i \in 1..Len(frames) :
       Keyframes[i].present /\ Keyframes[i].pose # NeutralPose
  /\ download.doc.interval # interval

----------------------------------------------------------------------------
(* C17: at most one playback callback is queued in every reachable state, *)
(* and while the document is loaded isPlaying is true exactly when one is *)
(* queued: pressing Play and Stop between callbacks and other user        *)
(* actions never leaves two loops, nor a loop with isPlaying false.       *)

\* The document has not been replaced by another one.
DocumentLoaded == lastOp # "unload"

C17_AtMostOne == Cardinality(rafQueue) <= 1

C17_FlagMatches == DocumentLoaded => (isPlaying <=> rafQueue # {})

----------------------------------------------------------------------------
(* C18: the object defaultFrame is never modified: in every reachable     *)
(* state each of its angles is 0, so the pose shown for an active index   *)
(* without a keyframe is the neutral pose whenever a pose is shown.       *)

C18_DefaultNeutral ==
  /\ objs[defaultFrame] = DefaultObj
  /\ PoseOf(joints, objs, defaultFrame) = NeutralPose

C18_FallbackNeutral ==
  At(frames, currentFrame) = Undefined /\ currentFrameData.present =>
    currentFrameData.pose = NeutralPose

C18_Theorem == C18_DefaultNeutral /\ C18_FallbackNeutral

\* The first keyframe, which was defaultFrame itself, has been edited and
\* still shares joint objects with defaultFrame, and the pose shown now is
\* the fallback.
C18_Witness ==
  /\ HasDefaultFrame
  /\ <<0, "head", "x">> \in DOMAIN written
  /\ At(frames, 0) # Undefined
  /\ At(frames, 0) # defaultFrame
  /\ KeyframeAt(0).pose # NeutralPose
  /\ \E p \in JointNames : objs[At(frames, 0)][p] = objs[defaultFrame][p]
  /\ At(frames, currentFrame) = Undefined

=============================================================================
